---------------------------- MODULE Spec2Model ----------------------------
(***************************************************************************)
(* A model of ScopeResolver (src/scope-resolver.js): the boundary map, the *)
(* range metadata, the pattern cache, and the operations store,            *)
(* setBoundary, getOrCompilePattern and reset.                             *)
(*                                                                         *)
(* JavaScript strings that the code inspects character by character        *)
(* (scope names, node text, node types, pattern literals) are sequences of *)
(* one-character strings.  Directive keys and directive values are TLA+    *)
(* strings; the conversions the code applies to a value (Number, the       *)
(* truthiness test, split('.'), new RegExp) are operators over the values  *)
(* the model draws.                                                        *)
(***************************************************************************)
EXTENDS Integers, Sequences, FiniteSets, TLC

VARIABLES
    map,           \* this.map
    rangeData,     \* this.rangeData
    patternCache,  \* this.patternCache
    compiled,      \* how often each pattern source was given to new RegExp
    calls,         \* store/setBoundary calls since the last reset
    last,          \* the last operation, its capture and what it returned
    emitted,       \* the captures store registered boundaries for, in call order
    accepted,      \* per range, the properties of the captures that passed, in call order
    direct,        \* whether setBoundary was called directly since the last reset
    registered,    \* the setBoundary calls since the last reset, in call order
    twin,          \* a resolver constructed anew at each reset
    twinLive,      \* whether a reset has happened
    probe          \* the arguments and results of the last call of the point functions

vars == <<map, rangeData, patternCache, compiled, calls, last, emitted, accepted,
          direct, registered, twin, twinLive, probe>>

\* The most store/setBoundary calls between two resets.
MaxCalls == 2

Max2(a, b) == IF a >= b THEN a ELSE b
Min2(a, b) == IF a <= b THEN a ELSE b

\* The element of a one-element set.  Binding a value as x \in {e} has it
\* evaluated once, however often x is used.
Pick(S) == CHOOSE x \in S : TRUE

Reverse(s) == Pick({[i \in 1..Len(t) |-> t[Len(t) + 1 - i]] : t \in {s}})

----------------------------------------------------------------------------
(* Strings as character sequences.                                         *)

\* Whether sub occurs in s at (0-based) offset i.
OccursAt(s, sub, i) ==
    /\ i >= 0
    /\ i + Len(sub) <= Len(s)
    /\ \A k \in 1..Len(sub) : s[i + k] = sub[k]

\* String.prototype.indexOf: the first offset of sub in s, or -1.
IndexOfValues(s, sub) ==
    IF \E i \in 0..Len(s) : OccursAt(s, sub, i)
    THEN CHOOSE i \in 0..Len(s) :
           /\ OccursAt(s, sub, i)
           /\ \A j \in 0..(i - 1) : ~OccursAt(s, sub, j)
    ELSE -1

IndexOf(s, sub) == Pick({IndexOfValues(s1, sub1) : s1 \in {s}, sub1 \in {sub}})

\* String.prototype.includes.
Includes(s, sub) == IndexOf(s, sub) >= 0

\* GetSubstitution for a string pattern (no capture groups): in the
\* replacement, $$ stands for $, $& for the matched text, $` and $' for the
\* text before and after the match; any other $ is literal.
RECURSIVE GetSubstitution(_, _, _, _)
GetSubstitution(by, matched, before, after) ==
    IF by = <<>> THEN <<>>
    ELSE IF by[1] = "$" /\ Len(by) >= 2 /\ by[2] \in {"$", "&", "`", "'"}
    THEN (CASE by[2] = "$" -> <<"$">>
            [] by[2] = "&" -> matched
            [] by[2] = "`" -> before
            [] by[2] = "'" -> after)
         \o GetSubstitution(SubSeq(by, 3, Len(by)), matched, before, after)
    ELSE <<by[1]>> \o GetSubstitution(Tail(by), matched, before, after)

\* String.prototype.replace(sub, by) with string arguments: only the first
\* occurrence is replaced, by the substitution of by.
ReplaceFirst(s, sub, by) ==
    Pick({IF i < 0 THEN s1
          ELSE SubSeq(s1, 1, i)
               \o GetSubstitution(by, sub, SubSeq(s1, 1, i),
                                  SubSeq(s1, i + Len(sub) + 1, Len(s1)))
               \o SubSeq(s1, i + Len(sub) + 1, Len(s1)) :
          <<s1, i>> \in {<<s, IndexOf(s, sub)>>}})

TEXT_TOKEN == <<"_", "T", "E", "X", "T", "_">>
TYPE_TOKEN == <<"_", "T", "Y", "P", "E", "_">>
IGNORE == <<"_", "I", "G", "N", "O", "R", "E", "_">>

----------------------------------------------------------------------------
(* comparePoints, isBetweenPoints.                                         *)

Point(r, c) == [row |-> r, column |-> c]

\* comparePoints looking at the columns only.
comparePoints_ColumnOnly(a, b) == a.column - b.column

comparePoints(a, b) ==
    LET rows == a.row - b.row IN
    IF rows = 0 THEN a.column - b.column ELSE rows

isBetweenPoints(point, a, b) ==
    LET comp == comparePoints(a, b)
        lesser == IF comp > 0 THEN b ELSE a
        greater == IF comp > 0 THEN a ELSE b
    IN  /\ comparePoints(point, lesser) >= 0
        /\ comparePoints(point, greater) <= 0

----------------------------------------------------------------------------
(* The buffer: three rows, "a_", "b c" and "$$".                           *)

BufferText == <<"a", "_", "\n", "b", " ", "c", "\n", "$", "$">>

BufferLen == Len(BufferText)

\* The number of line breaks before (0-based) offset i.
RowOfIndex == [i \in 0..BufferLen |-> Cardinality({k \in 1..i : BufferText[k] = "\n"})]

LastRow == RowOfIndex[BufferLen]

\* The offset of the first character of row r.
RowStart ==
    [r \in 0..LastRow |->
        IF r = 0 THEN 0
        ELSE CHOOSE i \in 1..BufferLen :
               BufferText[i] = "\n" /\ RowOfIndex[i] = r]

RowLength ==
    [r \in 0..LastRow |->
        (IF r = LastRow THEN BufferLen ELSE RowStart[r + 1] - 1) - RowStart[r]]

\* buffer.clipPosition: clamps a position to the buffer.
clipPosition(p) ==
    IF p.row < 0 THEN Point(0, 0)
    ELSE IF p.row > LastRow THEN Point(LastRow, RowLength[LastRow])
    ELSE Point(p.row, Max2(0, Min2(p.column, RowLength[p.row])))

\* buffer.positionForCharacterIndex: clamps the offset to the buffer.
PositionTable == [i \in 0..BufferLen |-> Point(RowOfIndex[i], i - RowStart[RowOfIndex[i]])]

indexToPosition(index) == PositionTable[Max2(0, Min2(index, BufferLen))]

\* buffer.characterIndexForPosition: clips the position first.
positionToIndex(position) ==
    LET p == clipPosition(position) IN RowStart[p.row] + p.column

adjustPositionByOffset(position, offset) ==
    LET index == positionToIndex(position) + offset
        newPosition == indexToPosition(index)
    IN  clipPosition(newPosition)

----------------------------------------------------------------------------
(* The syntax tree of the buffer.  Node 5 is a zero-width (missing) node,  *)
(* node 6 an ERROR node, node 7 an anonymous node, whose type is its text. *)
(* parent = 0 stands for "no parent".                                      *)

NodeTable == <<
  [id |-> 1, type |-> <<"d", "o", "c">>, startIndex |-> 0, endIndex |-> 9,
   parent |-> 0, children |-> <<2, 5, 6, 7>>, error |-> FALSE],
  [id |-> 2, type |-> <<"k", "v">>, startIndex |-> 0, endIndex |-> 2,
   parent |-> 1, children |-> <<3, 4>>, error |-> FALSE],
  [id |-> 3, type |-> <<"i", "d">>, startIndex |-> 0, endIndex |-> 1,
   parent |-> 2, children |-> <<>>, error |-> FALSE],
  [id |-> 4, type |-> <<"i", "d">>, startIndex |-> 1, endIndex |-> 2,
   parent |-> 2, children |-> <<>>, error |-> FALSE],
  [id |-> 5, type |-> <<"i", "d">>, startIndex |-> 2, endIndex |-> 2,
   parent |-> 1, children |-> <<>>, error |-> FALSE],
  [id |-> 6, type |-> <<"E", "R", "R", "O", "R">>, startIndex |-> 3,
   endIndex |-> 6, parent |-> 1, children |-> <<>>, error |-> TRUE],
  [id |-> 7, type |-> <<"$", "$">>, startIndex |-> 7, endIndex |-> 9,
   parent |-> 1, children |-> <<>>, error |-> FALSE] >>

Nodes == 1..Len(NodeTable)

NodeType(n) == NodeTable[n].type
NodeParent(n) == NodeTable[n].parent
NodeChildren(n) == NodeTable[n].children

\* A node seen as a range: the four fields store and the tests read.
NodeRanges ==
    [n \in Nodes |->
        [startPosition |-> indexToPosition(NodeTable[n].startIndex),
         startIndex |-> NodeTable[n].startIndex,
         endPosition |-> indexToPosition(NodeTable[n].endIndex),
         endIndex |-> NodeTable[n].endIndex]]

NodeRange(n) == NodeRanges[n]
NodeStartPosition(n) == NodeRanges[n].startPosition
NodeEndPosition(n) == NodeRanges[n].endPosition

\* node.text
NodeTexts ==
    [n \in Nodes |-> SubSeq(BufferText, NodeTable[n].startIndex + 1, NodeTable[n].endIndex)]

NodeText(n) == NodeTexts[n]

\* The proper ancestors of n, nearest first.
RECURSIVE AncestorsOf(_)
AncestorsOf(n) ==
    IF NodeParent(n) = 0 THEN <<>>
    ELSE <<NodeParent(n)>> \o AncestorsOf(NodeParent(n))

AncestorTable == [n \in Nodes |-> AncestorsOf(n)]

Ancestors(n) == AncestorTable[n]

\* The proper descendants of n.
RECURSIVE DescendantsOf(_)
DescendantsOf(n) ==
    {NodeChildren(n)[i] : i \in 1..Len(NodeChildren(n))} \cup
    UNION {DescendantsOf(NodeChildren(n)[i]) : i \in 1..Len(NodeChildren(n))}

DescendantTable == [n \in Nodes |-> DescendantsOf(n)]

Descendants(n) == DescendantTable[n]

\* node.hasError(): the node or one of its descendants is an error.
NodeHasError(n) == \E m \in {n} \cup Descendants(n) : NodeTable[m].error

----------------------------------------------------------------------------
(* Directive values and the conversions the code applies to them.          *)

\* Number(value) for the values that are numeric strings; every other value
\* converts to NaN.
NumberTable == ("" :> 0) @@ ("0" :> 0) @@ ("1" :> 1) @@ ("2" :> 2) @@
               ("-1" :> -1) @@ ("-2" :> -2)

IsNaN(value) == value \notin DOMAIN NumberTable
Number(value) == NumberTable[value]

\* The truthiness of a string: only the empty string is falsy.
Truthy(value) == value # ""

\* The characters of a value.
Chars(value) ==
    CASE value = "_" -> <<"_">>
      [] value = "c" -> <<"c">>
      [] value = "z" -> <<"z">>
      [] value = "id" -> <<"i", "d">>
      [] value = "kv" -> <<"k", "v">>
      [] value = "doc" -> <<"d", "o", "c">>
      [] OTHER -> <<>>

\* descriptor.split('.')
Split(descriptor) ==
    CASE descriptor = "startPosition" -> <<"startPosition">>
      [] descriptor = "endPosition" -> <<"endPosition">>
      [] descriptor = "parent.startPosition" -> <<"parent", "startPosition">>
      [] descriptor = "parent.endPosition" -> <<"parent", "endPosition">>
      [] descriptor = "firstChild.endPosition" -> <<"firstChild", "endPosition">>
      [] descriptor = "lastChild.startPosition" -> <<"lastChild", "startPosition">>
      [] descriptor = "lastChild.endPosition" -> <<"lastChild", "endPosition">>
      [] descriptor = "parent.parent.endPosition" ->
             <<"parent", "parent", "endPosition">>
      [] OTHER -> <<descriptor>>

\* new RegExp(pattern): the patterns drawn are literals, so the compiled
\* pattern is the character sequence it searches for.
RegExpLiteral(pattern) == Chars(pattern)

Patterns == {"_", "z"}

\* text.match(regex): the offset and length of the first match, or no match.
Match(text, regex) ==
    Pick({[found |-> i >= 0, index |-> i, length |-> Len(regex)] :
          i \in {IndexOf(text, regex)}})

\* node[part] for the navigation properties of a node: a node, or 0 when the
\* property is null or undefined.
NodeProperty(n, part) ==
    CASE part = "parent" -> NodeParent(n)
      [] part = "firstChild" ->
             IF NodeChildren(n) = <<>> THEN 0 ELSE NodeChildren(n)[1]
      [] part = "lastChild" ->
             IF NodeChildren(n) = <<>> THEN 0
             ELSE NodeChildren(n)[Len(NodeChildren(n))]
      [] OTHER -> 0

\* resolveNodeDescriptor over already-split parts: the node reached, or 0
\* for null.
RECURSIVE resolveNodeDescriptor(_, _)
resolveNodeDescriptor(n, parts) ==
    IF n = 0 \/ parts = <<>> THEN n
    ELSE resolveNodeDescriptor(NodeProperty(n, Head(parts)), Tail(parts))

\* resolveNodePosition: the position named by the descriptor.  Reading a
\* property of null, or a property that is no position, ends in a TypeError
\* where the result is used.
resolveNodePosition(n, descriptor) ==
    Pick({IF result = 0 \/ lastPart \notin {"startPosition", "endPosition"}
          THEN [ok |-> FALSE, point |-> Point(0, 0)]
          ELSE [ok |-> TRUE,
                point |-> IF lastPart = "startPosition"
                          THEN NodeStartPosition(result)
                          ELSE NodeEndPosition(result)] :
          <<lastPart, result>> \in
              {<<parts[Len(parts)],
                 resolveNodeDescriptor(n, SubSeq(parts, 1, Len(parts) - 1))>> :
               parts \in {Split(descriptor)}}})

----------------------------------------------------------------------------
(* The resolver's services.  A resolver is a record of its three maps:     *)
(*   map          position key -> [open, close] lists of scope IDs         *)
(*   rangeData    range key -> setProperties                               *)
(*   patternCache pattern source -> compiled pattern                       *)
(* compiled counts the RegExp constructions per pattern source.            *)

EmptyMap == [k \in {} |-> 0]

\* Map.prototype.set
MapSet(m, k, v) ==
    Pick({[x \in (DOMAIN m1) \cup {k1} |-> IF x = k1 THEN v1 ELSE m1[x]] :
          m1 \in {m}, k1 \in {k}, v1 \in {v}})

_keyForPoint(point) == <<point.row, point.column>>
_keyForRange(range) == <<range.startIndex, range.endIndex>>
_keyToObject(key) == Point(key[1], key[2])

\* getOrCompilePattern compiling the pattern whether it is cached or not.
getOrCompilePattern_Recompiles(cache, count, pattern) ==
    [regex |-> RegExpLiteral(pattern),
     cache |-> MapSet(cache, pattern, RegExpLiteral(pattern)),
     count |-> [count EXCEPT ![pattern] = @ + 1]]

\* getOrCompilePattern: the compiled pattern, and the cache and construction
\* counts afterwards.
getOrCompilePattern(cache, count, pattern) ==
    IF pattern \in DOMAIN cache
    THEN [regex |-> cache[pattern], cache |-> cache, count |-> count]
    ELSE [regex |-> RegExpLiteral(pattern),
          cache |-> MapSet(cache, pattern, RegExpLiteral(pattern)),
          count |-> [count EXCEPT ![pattern] = @ + 1]]

\* setDataForRange keeping what is already recorded for the range.
setDataForRange_KeepFirst(data, range, props) ==
    IF _keyForRange(range) \in DOMAIN data THEN data
    ELSE MapSet(data, _keyForRange(range), props)

setDataForRange(data, range, props) == MapSet(data, _keyForRange(range), props)

\* getDataForRange: found = FALSE stands for undefined.
getDataForRange(data, range) ==
    LET key == _keyForRange(range) IN
    IF key \in DOMAIN data THEN [found |-> TRUE, props |-> data[key]]
    ELSE [found |-> FALSE, props |-> <<>>]

\* isValidRange accepting a range that starts where it ends.
isValidRange_AllowsEmpty(range) ==
    /\ ~(range.startIndex > range.endIndex)
    /\ ~(comparePoints(range.startPosition, range.endPosition) > 0)

\* isValidRange; the typeof checks hold of every range the model builds.
isValidRange(range) ==
    /\ ~(range.startIndex > range.endIndex)
    /\ ~(comparePoints(range.startPosition, range.endPosition) >= 0)

----------------------------------------------------------------------------
(* setProperties is a sequence of <<key, value>> pairs in the iteration    *)
(* order of the object's keys.                                             *)

Keys(props) == {props[i][1] : i \in 1..Len(props)}
HasKey(props, key) == key \in Keys(props)
ValueOf(props, key) == props[CHOOSE i \in 1..Len(props) : props[i][1] = key][2]

AdjustmentKeys ==
    {"startAt", "endAt", "offsetStart", "offsetEnd",
     "startAndEndAroundFirstMatchOf", "startBeforeFirstMatchOf",
     "startAfterFirstMatchOf", "endBeforeFirstMatchOf", "endAfterFirstMatchOf"}

\* The properties every object inherits from Object.prototype are found by
\* the in operator as well; of these, the ones the captures drawn use.
InheritedKeys == {"toString", "hasOwnProperty"}

\* key in ScopeResolver.ADJUSTMENTS
InADJUSTMENTS(key) == key \in AdjustmentKeys \cup InheritedKeys

\* The result of an adjustment: a range, null, a thrown error, or (from an
\* inherited function) some other value that is not a range.
Ranged(range, cache, count) ==
    [tag |-> "range", range |-> range, cache |-> cache, count |-> count]
Nulled(range, cache, count) ==
    [tag |-> "null", range |-> range, cache |-> cache, count |-> count]
Thrown(range, cache, count) ==
    [tag |-> "throw", range |-> range, cache |-> cache, count |-> count]
Other(range, cache, count) ==
    [tag |-> "other", range |-> range, cache |-> cache, count |-> count]

\* The extent check without its upper end.
Extent_StartOnly(n, point) == comparePoints(point, NodeStartPosition(n)) >= 0

Extent(n, point) == isBetweenPoints(point, NodeStartPosition(n), NodeEndPosition(n))

startAt(n, value, range, cache, count) ==
    Pick({IF ~start.ok \/ ~Extent(n, start.point) THEN Thrown(range, cache, count)
          ELSE Ranged([range EXCEPT !.startPosition = start.point,
                                    !.startIndex = positionToIndex(start.point)],
                      cache, count) :
          start \in {resolveNodePosition(n, value)}})

endAt(n, value, range, cache, count) ==
    Pick({IF ~end.ok \/ ~Extent(n, end.point) THEN Thrown(range, cache, count)
          ELSE Ranged([range EXCEPT !.endPosition = end.point,
                                    !.endIndex = positionToIndex(end.point)],
                      cache, count) :
          end \in {resolveNodePosition(n, value)}})

offsetStart(n, value, range, cache, count) ==
    IF IsNaN(value) THEN Nulled(range, cache, count)
    ELSE Pick({IF ~Extent(n, offsetPosition) THEN Thrown(range, cache, count)
               ELSE Ranged([range EXCEPT !.startPosition = offsetPosition,
                                         !.startIndex = positionToIndex(offsetPosition)],
                           cache, count) :
               offsetPosition \in
                   {adjustPositionByOffset(range.startPosition, Number(value))}})

offsetEnd(n, value, range, cache, count) ==
    IF IsNaN(value) THEN Nulled(range, cache, count)
    ELSE Pick({IF ~Extent(n, offsetPosition) THEN Thrown(range, cache, count)
               ELSE Ranged([range EXCEPT !.endPosition = offsetPosition,
                                         !.endIndex = positionToIndex(offsetPosition)],
                           cache, count) :
               offsetPosition \in
                   {adjustPositionByOffset(range.endPosition, Number(value))}})

\* The range with its start and/or end moved to the given offsets from
\* the node's start; the indices are recomputed from the new positions.
Moved(n, range, moveStart, startOffset, moveEnd, endOffset) ==
    Pick({[startPosition |-> IF moveStart THEN newStart ELSE range.startPosition,
           startIndex |-> IF moveStart THEN positionToIndex(newStart)
                          ELSE range.startIndex,
           endPosition |-> IF moveEnd THEN newEnd ELSE range.endPosition,
           endIndex |-> IF moveEnd THEN positionToIndex(newEnd) ELSE range.endIndex] :
          newStart \in {adjustPositionByOffset(NodeStartPosition(n), startOffset)},
          newEnd \in {adjustPositionByOffset(NodeStartPosition(n), endOffset)}})

\* The five match-based adjustments differ in which ends they move
\* (moveStart, moveEnd) and to which end of the match (afterStart, afterEnd:
\* past the match rather than before it).
MatchAdjustment(n, value, range, cache, count, moveStart, afterStart, moveEnd, afterEnd) ==
    Pick({IF ~match.found THEN Nulled(range, got.cache, got.count)
          ELSE Ranged(Moved(n, range,
                            moveStart,
                            match.index + (IF afterStart THEN match.length ELSE 0),
                            moveEnd,
                            match.index + (IF afterEnd THEN match.length ELSE 0)),
                      got.cache, got.count) :
          <<got, match>> \in
              {<<g, Match(NodeText(n), g.regex)>> :
               g \in {getOrCompilePattern(cache, count, value)}}})

startAndEndAroundFirstMatchOf(n, value, range, cache, count) ==
    MatchAdjustment(n, value, range, cache, count, TRUE, FALSE, TRUE, TRUE)

startBeforeFirstMatchOf(n, value, range, cache, count) ==
    MatchAdjustment(n, value, range, cache, count, TRUE, FALSE, FALSE, FALSE)

startAfterFirstMatchOf(n, value, range, cache, count) ==
    MatchAdjustment(n, value, range, cache, count, TRUE, TRUE, FALSE, FALSE)

endBeforeFirstMatchOf(n, value, range, cache, count) ==
    MatchAdjustment(n, value, range, cache, count, FALSE, FALSE, TRUE, FALSE)

endAfterFirstMatchOf(n, value, range, cache, count) ==
    MatchAdjustment(n, value, range, cache, count, FALSE, FALSE, TRUE, TRUE)

\* ScopeResolver.ADJUSTMENTS[key](node, value, props, range, resolver)
ADJUSTMENTS(key, n, value, range, cache, count) ==
    CASE key = "startAt" -> startAt(n, value, range, cache, count)
      [] key = "endAt" -> endAt(n, value, range, cache, count)
      [] key = "offsetStart" -> offsetStart(n, value, range, cache, count)
      [] key = "offsetEnd" -> offsetEnd(n, value, range, cache, count)
      [] key = "startAndEndAroundFirstMatchOf" ->
             startAndEndAroundFirstMatchOf(n, value, range, cache, count)
      [] key = "startBeforeFirstMatchOf" ->
             startBeforeFirstMatchOf(n, value, range, cache, count)
      [] key = "startAfterFirstMatchOf" ->
             startAfterFirstMatchOf(n, value, range, cache, count)
      [] key = "endBeforeFirstMatchOf" ->
             endBeforeFirstMatchOf(n, value, range, cache, count)
      [] key = "endAfterFirstMatchOf" ->
             endAfterFirstMatchOf(n, value, range, cache, count)
      [] key = "toString" -> Other(range, cache, count)
      [] key = "hasOwnProperty" -> Other(range, cache, count)

adjustsCaptureRange(props) ==
    IF Len(props) = 0 THEN FALSE
    ELSE \E k \in Keys(props) : InADJUSTMENTS(k)

\* The loop going on with the range so far after an adjustment returned
\* null.
RECURSIVE AdjustFrom_PastNull(_, _, _, _, _, _)
AdjustFrom_PastNull(i, n, props, range, cache, count) ==
    IF i > Len(props) THEN Ranged(range, cache, count)
    ELSE IF InADJUSTMENTS(props[i][1])
    THEN Pick({IF res.tag \in {"range", "null"}
               THEN AdjustFrom_PastNull(i + 1, n, props, res.range, res.cache, res.count)
               ELSE res :
               res \in {ADJUSTMENTS(props[i][1], n, props[i][2], range, cache, count)}})
    ELSE AdjustFrom_PastNull(i + 1, n, props, range, cache, count)

\* The loop of determineCaptureRange from the i-th property on.  It ends
\* with the first result that is not a range: in the captures drawn no
\* adjustment follows an inherited key.
RECURSIVE AdjustFrom(_, _, _, _, _, _)
AdjustFrom(i, n, props, range, cache, count) ==
    IF i > Len(props) THEN Ranged(range, cache, count)
    ELSE IF InADJUSTMENTS(props[i][1])
    THEN Pick({IF res.tag = "range"
               THEN AdjustFrom(i + 1, n, props, res.range, res.cache, res.count)
               ELSE res :
               res \in {ADJUSTMENTS(props[i][1], n, props[i][2], range, cache, count)}})
    ELSE AdjustFrom(i + 1, n, props, range, cache, count)

determineCaptureRange(n, props, cache, count) ==
    IF ~adjustsCaptureRange(props) THEN Ranged(NodeRange(n), cache, count)
    ELSE Pick({IF res.tag = "other" \/ (res.tag = "range" /\ ~isValidRange(res.range))
               THEN Nulled(res.range, res.cache, res.count)
               ELSE res :
               res \in {AdjustFrom(1, n, props, NodeRange(n), cache, count)}})

----------------------------------------------------------------------------
(* ScopeResolver.TESTS.  A test passes, fails, or throws.                  *)

\* languageLayer.depth: the resolver of the model belongs to a top-level layer.
Depth == 0

Verdict(b) == IF b THEN "pass" ELSE "fail"
Negate(v) == IF v = "throw" THEN v ELSE IF v = "pass" THEN "fail" ELSE "pass"

TestKeys ==
    {"final", "shy", "onlyIfError", "onlyIfHasError", "onlyIfInjection",
     "onlyIfRoot", "onlyIfFirst", "onlyIfNotFirst", "onlyIfLast", "onlyIfNotLast",
     "onlyIfFirstOfType", "onlyIfLastOfType", "onlyIfLastTextOnRow",
     "onlyIfNotLastTextOnRow", "onlyIfDescendantOfType",
     "onlyIfNotDescendantOfType", "onlyIfAncestorOfType",
     "onlyIfNotAncestorOfType", "onlyIfDescendantOfNodeWithData",
     "onlyIfNotDescendantOfNodeWithData", "onlyIfOnSameRowAs",
     "onlyIfNotOnSameRowAs"}

\* key in ScopeResolver.TESTS
InTESTS(key) == key \in TestKeys \cup InheritedKeys

\* existingData && existingData.final
DataFinal(existingData) ==
    /\ existingData.found
    /\ HasKey(existingData.props, "final")
    /\ Truthy(ValueOf(existingData.props, "final"))

final(existingData) == ~DataFinal(existingData)

\* shy looking only for final metadata instead of any metadata.
shy_OnlyFinal(existingData) == ~DataFinal(existingData)

shy(existingData) == ~existingData.found

onlyIfError(n) == NodeType(n) = <<"E", "R", "R", "O", "R">>

onlyIfHasError(n) == NodeHasError(n)

onlyIfInjection == Depth > 0

onlyIfRoot(n) == NodeParent(n) = 0

onlyIfFirst(n) ==
    IF NodeParent(n) = 0 THEN TRUE
    ELSE NodeProperty(NodeParent(n), "firstChild") = n

onlyIfNotFirst(n) ==
    IF NodeParent(n) = 0 THEN FALSE
    ELSE NodeProperty(NodeParent(n), "firstChild") # n

onlyIfLast(n) ==
    IF NodeParent(n) = 0 THEN TRUE
    ELSE NodeProperty(NodeParent(n), "lastChild") = n

onlyIfNotLast(n) ==
    IF NodeParent(n) = 0 THEN FALSE
    ELSE NodeProperty(NodeParent(n), "lastChild") # n

\* Scanning the siblings from the first on, the node is met before any other
\* node of its type.
onlyIfFirstOfType(n) ==
    IF NodeParent(n) = 0 THEN TRUE
    ELSE LET sibs == NodeChildren(NodeParent(n))
             me == CHOOSE i \in 1..Len(sibs) : sibs[i] = n
         IN  \A i \in 1..(me - 1) : NodeType(sibs[i]) # NodeType(n)

onlyIfLastOfType(n) ==
    IF NodeParent(n) = 0 THEN TRUE
    ELSE LET sibs == NodeChildren(NodeParent(n))
             me == CHOOSE i \in 1..Len(sibs) : sibs[i] = n
         IN  \A i \in (me + 1)..Len(sibs) : NodeType(sibs[i]) # NodeType(n)

\* buffer.lineForRow(row).slice(column) holds no non-whitespace character.
onlyIfLastTextOnRow(n) ==
    LET end == NodeEndPosition(n)
        from == RowStart[end.row] + end.column
        to == RowStart[end.row] + RowLength[end.row]
    IN  \A i \in (from + 1)..to : BufferText[i] \in {" ", "\t"}

onlyIfDescendantOfType(n, type) ==
    \E i \in 1..Len(Ancestors(n)) : NodeType(Ancestors(n)[i]) = Chars(type)

onlyIfAncestorOfType(n, type) ==
    \E m \in Descendants(n) : NodeType(m) = Chars(type)

\* Some ancestor has metadata recorded under its own range with key in it
\* (key in data).
onlyIfDescendantOfNodeWithData(n, key, data) ==
    \E i \in 1..Len(Ancestors(n)) :
        LET got == getDataForRange(data, NodeRange(Ancestors(n)[i])) IN
        got.found /\ (HasKey(got.props, key) \/ key \in InheritedKeys)

onlyIfOnSameRowAs(n, descriptor) ==
    Pick({IF ~other.ok THEN "throw"
          ELSE Verdict(other.point.row = NodeStartPosition(n).row) :
          other \in {resolveNodePosition(n, descriptor)}})

\* ScopeResolver.TESTS[key](node, value, props, existingData, instance)
TESTS(key, n, value, existingData, data) ==
    CASE key = "final" -> Verdict(final(existingData))
      [] key = "shy" -> Verdict(shy(existingData))
      [] key = "onlyIfError" -> Verdict(onlyIfError(n))
      [] key = "onlyIfHasError" -> Verdict(onlyIfHasError(n))
      [] key = "onlyIfInjection" -> Verdict(onlyIfInjection)
      [] key = "onlyIfRoot" -> Verdict(onlyIfRoot(n))
      [] key = "onlyIfFirst" -> Verdict(onlyIfFirst(n))
      [] key = "onlyIfNotFirst" -> Verdict(onlyIfNotFirst(n))
      [] key = "onlyIfLast" -> Verdict(onlyIfLast(n))
      [] key = "onlyIfNotLast" -> Verdict(onlyIfNotLast(n))
      [] key = "onlyIfFirstOfType" -> Verdict(onlyIfFirstOfType(n))
      [] key = "onlyIfLastOfType" -> Verdict(onlyIfLastOfType(n))
      [] key = "onlyIfLastTextOnRow" -> Verdict(onlyIfLastTextOnRow(n))
      [] key = "onlyIfNotLastTextOnRow" -> Verdict(~onlyIfLastTextOnRow(n))
      [] key = "onlyIfDescendantOfType" -> Verdict(onlyIfDescendantOfType(n, value))
      [] key = "onlyIfNotDescendantOfType" ->
             Verdict(~onlyIfDescendantOfType(n, value))
      [] key = "onlyIfAncestorOfType" -> Verdict(onlyIfAncestorOfType(n, value))
      [] key = "onlyIfNotAncestorOfType" -> Verdict(~onlyIfAncestorOfType(n, value))
      [] key = "onlyIfDescendantOfNodeWithData" ->
             Verdict(onlyIfDescendantOfNodeWithData(n, value, data))
      [] key = "onlyIfNotDescendantOfNodeWithData" ->
             Verdict(~onlyIfDescendantOfNodeWithData(n, value, data))
      [] key = "onlyIfOnSameRowAs" -> onlyIfOnSameRowAs(n, value)
      [] key = "onlyIfNotOnSameRowAs" -> Negate(onlyIfOnSameRowAs(n, value))
      [] key = "toString" -> "pass"
      [] key = "hasOwnProperty" -> "throw"

\* The loop of test from the i-th property on.
RECURSIVE TestFrom(_, _, _, _, _)
TestFrom(i, existingData, props, n, data) ==
    IF i > Len(props) THEN "pass"
    ELSE IF ~InTESTS(props[i][1])
    THEN TestFrom(i + 1, existingData, props, n, data)
    ELSE Pick({IF v = "pass" THEN TestFrom(i + 1, existingData, props, n, data)
               ELSE v :
               v \in {TESTS(props[i][1], n, props[i][2], existingData, data)}})

\* test without the short-circuit on existing final metadata.
test_NoFinalGuard(existingData, props, n, data) ==
    Pick({TestFrom(1, existing, props, n, data) : existing \in {existingData}})

\* test(existingData, props, node)
test(existingData, props, n, data) ==
    Pick({IF DataFinal(existing) THEN "fail"
          ELSE TestFrom(1, existing, props, n, data) :
          existing \in {existingData}})

\* ScopeResolver.interpolateName
interpolateName(name, n) ==
    Pick({ReplaceFirst(name1, TYPE_TOKEN, NodeType(n)) :
          name1 \in {IF Includes(name, TEXT_TOKEN) /\ ~Includes(NodeText(n), <<" ">>)
                     THEN ReplaceFirst(name, TEXT_TOKEN, NodeText(n))
                     ELSE name}})

\* The injected idForScope; the default is the identity.
idForScope(name) == name

----------------------------------------------------------------------------
(* store and setBoundary as functions of the resolver's maps.              *)

EmptyBundle == [open |-> <<>>, close |-> <<>>]

\* setBoundary appending to the close list as it does to the open list.
setBoundary_CloseAppends(m, point, id, which, root) ==
    Pick({IF which = "open"
          THEN MapSet(m1, key,
                 [m1[key] EXCEPT !.open = IF root THEN <<id>> \o @ ELSE Append(@, id)])
          ELSE MapSet(m1, key, [m1[key] EXCEPT !.close = Append(@, id)]) :
          <<key, m1>> \in
              {<<k, IF k \in DOMAIN m THEN m ELSE MapSet(m, k, EmptyBundle)>> :
               k \in {_keyForPoint(point)}}})

\* setBoundary prepending to the open list as it does to the close list.
setBoundary_OpenPrepends(m, point, id, which, root) ==
    Pick({IF which = "open"
          THEN MapSet(m1, key, [m1[key] EXCEPT !.open = <<id>> \o @])
          ELSE MapSet(m1, key,
                 [m1[key] EXCEPT !.close = IF root THEN Append(@, id) ELSE <<id>> \o @]) :
          <<key, m1>> \in
              {<<k, IF k \in DOMAIN m THEN m ELSE MapSet(m, k, EmptyBundle)>> :
               k \in {_keyForPoint(point)}}})

\* setBoundary ignoring the root option.
setBoundary_RootIgnored(m, point, id, which, root) ==
    Pick({IF which = "open"
          THEN MapSet(m1, key, [m1[key] EXCEPT !.open = Append(@, id)])
          ELSE MapSet(m1, key, [m1[key] EXCEPT !.close = <<id>> \o @]) :
          <<key, m1>> \in
              {<<k, IF k \in DOMAIN m THEN m ELSE MapSet(m, k, EmptyBundle)>> :
               k \in {_keyForPoint(point)}}})

\* setBoundary(point, id, which, {root})
setBoundary(m, point, id, which, root) ==
    Pick({IF which = "open"
          THEN MapSet(m1, key,
                 [m1[key] EXCEPT !.open = IF root THEN <<id>> \o @ ELSE Append(@, id)])
          ELSE MapSet(m1, key,
                 [m1[key] EXCEPT !.close = IF root THEN Append(@, id) ELSE <<id>> \o @]) :
          <<key, m1>> \in
              {<<k, IF k \in DOMAIN m THEN m ELSE MapSet(m, k, EmptyBundle)>> :
               k \in {_keyForPoint(point)}}})

\* Stands for "no range" (null): index 0 to index -1 is the range of nothing.
NoRange == [startPosition |-> Point(0, 0), startIndex |-> 0,
            endPosition |-> Point(0, 0), endIndex |-> -1]

\* What store leaves behind: the three maps, the construction counts, and
\* the outcome: ret is "false", "range" (the range is returned) or "throw".
\* resolved says whether determineCaptureRange returned a range, passed
\* whether the capture then passed its tests.
Outcome(m, data, cache, count, ret, range, passed, name) ==
    [map |-> m, rangeData |-> data, patternCache |-> cache, compiled |-> count,
     ret |-> ret, range |-> range, resolved |-> range # NoRange,
     passed |-> passed, name |-> name]

\* The two setBoundary calls of store with the close call left out.
setBoundaries_OpenOnly(m, range, id) ==
    Pick({m1 : m1 \in {setBoundary(m, range.startPosition, id, "open", FALSE)}})

\* The two setBoundary calls of store.
setBoundaries(m, range, id) ==
    Pick({setBoundary(m1, range.endPosition, id, "close", FALSE) :
          m1 \in {setBoundary(m, range.startPosition, id, "open", FALSE)}})

\* store without the early return for the suppression sentinel.
storeRange_SentinelEmits(m, data, c, name, res) ==
    IF res.tag = "throw"
    THEN Outcome(m, data, res.cache, res.count, "throw", NoRange, FALSE, name)
    ELSE IF res.tag = "null"
    THEN Outcome(m, data, res.cache, res.count, "false", NoRange, FALSE, name)
    ELSE Pick({
        IF verdict = "throw"
        THEN Outcome(m, data, res.cache, res.count, "throw", res.range, FALSE, name)
        ELSE IF verdict = "fail"
        THEN Outcome(m, data, res.cache, res.count, "false", res.range, FALSE, name)
        ELSE Outcome(setBoundaries(m, res.range, idForScope(name)),
                     setDataForRange(data, res.range, c.props),
                     res.cache, res.count, "range", res.range, TRUE, name) :
        verdict \in {test(getDataForRange(data, res.range), c.props, c.node, data)}})

\* store recording the capture's metadata under its node's extent before
\* the range is determined.
storeRange_RecordsFirst(m, data, c, name, res) ==
    IF res.tag = "throw"
    THEN Outcome(m, setDataForRange(data, NodeRange(c.node), c.props),
                 res.cache, res.count, "throw", NoRange, FALSE, name)
    ELSE IF res.tag = "null"
    THEN Outcome(m, data, res.cache, res.count, "false", NoRange, FALSE, name)
    ELSE Pick({
        IF verdict = "throw"
        THEN Outcome(m, data, res.cache, res.count, "throw", res.range, FALSE, name)
        ELSE IF verdict = "fail"
        THEN Outcome(m, data, res.cache, res.count, "false", res.range, FALSE, name)
        ELSE IF name = IGNORE
        THEN Outcome(m, setDataForRange(data, res.range, c.props),
                     res.cache, res.count, "false", res.range, TRUE, name)
        ELSE Outcome(setBoundaries(m, res.range, idForScope(name)),
                     setDataForRange(data, res.range, c.props),
                     res.cache, res.count, "range", res.range, TRUE, name) :
        verdict \in {test(getDataForRange(data, res.range), c.props, c.node, data)}})

\* store from the point where the range is determined (res) and the name
\* interpolated.
storeRange(m, data, c, name, res) ==
    IF res.tag = "throw"
    THEN Outcome(m, data, res.cache, res.count, "throw", NoRange, FALSE, name)
    ELSE IF res.tag = "null"
    THEN Outcome(m, data, res.cache, res.count, "false", NoRange, FALSE, name)
    ELSE Pick({
        IF verdict = "throw"
        THEN Outcome(m, data, res.cache, res.count, "throw", res.range, FALSE, name)
        ELSE IF verdict = "fail"
        THEN Outcome(m, data, res.cache, res.count, "false", res.range, FALSE, name)
        ELSE IF name = IGNORE
        THEN Outcome(m, setDataForRange(data, res.range, c.props),
                     res.cache, res.count, "false", res.range, TRUE, name)
        ELSE Outcome(setBoundaries(m, res.range, idForScope(name)),
                     setDataForRange(data, res.range, c.props),
                     res.cache, res.count, "range", res.range, TRUE, name) :
        verdict \in {test(getDataForRange(data, res.range), c.props, c.node, data)}})

\* store(syntax), for the capture {node, name, setProperties: props}
store(m, data, cache, count, c) ==
    Pick({storeRange(m, data, c, name, res) :
          name \in {interpolateName(c.name, c.node)},
          res \in {determineCaptureRange(c.node, c.props, cache, count)}})

\* reset leaving the boundary map as it is.
reset_KeepsMap(m, data) == [map |-> m, rangeData |-> EmptyMap]

\* reset leaving the range metadata as it is.
reset_KeepsRangeData(m, data) == [map |-> EmptyMap, rangeData |-> data]

\* reset(): the two maps it clears.
reset(m, data) == [map |-> EmptyMap, rangeData |-> EmptyMap]

\* The iterator: the (point, bundle) pairs of the map.
Iterate(m) == {<<_keyToObject(key), m[key]>> : key \in DOMAIN m}

----------------------------------------------------------------------------
(* The inputs.                                                             *)

NameA == <<"a">>
NameB == <<"b">>
\* "_IGNORE_TEXT_": with the text of node 4 ("_") it interpolates to the
\* suppression sentinel.
NameText == <<"_", "I", "G", "N", "O", "R", "E">> \o TEXT_TOKEN

PropSets ==
    { <<>>,
      << <<"final", "true">> >>,
      << <<"final", "">> >>,
      << <<"shy", "true">> >>,
      << <<"offsetStart", "1">> >>,
      << <<"offsetStart", "x">> >>,
      << <<"startAfterFirstMatchOf", "_">> >>,
      << <<"endBeforeFirstMatchOf", "z">> >>,
      << <<"onlyIfNotFirst", "true">> >>,
      << <<"onlyIfDescendantOfNodeWithData", "final">> >>,
      << <<"startAt", "parent.startPosition">> >> }

Capture(n, name, props) == [node |-> n, name |-> name, props |-> props]

\* Every directive set on five of the nodes under a plain name, and the
\* arbitration directives under the sentinel and the interpolated name on
\* the nodes whose ranges other captures contend for.
Captures ==
    {Capture(n, NameA, props) : n \in {1, 2, 4, 5, 6}, props \in PropSets} \cup
    {Capture(n, name, props) :
        n \in {2, 4}, name \in {IGNORE, NameText},
        props \in {<<>>, << <<"final", "true">> >>, << <<"shy", "true">> >>}}

\* Captures without directives, under two names, on every node.
PlainCaptures == {Capture(n, name, <<>>) : n \in Nodes, name \in {NameA, NameB}}

\* The scope ID and the positions of direct setBoundary calls.
RootId == <<"r">>
BoundaryPoints == {Point(0, 0), Point(1, 3)}

NoCapture == Capture(0, <<>>, <<>>)

Fresh == [map |-> EmptyMap, rangeData |-> EmptyMap, patternCache |-> EmptyMap]

\* No call of the point functions yet.
NoProbe == [made |-> FALSE]

\* A setBoundary call as the log keeps it.
Registration(point, id, which, root) ==
    [key |-> _keyForPoint(point), id |-> id, which |-> which, root |-> root]

\* The record of the last operation: for store, the capture, the
\* interpolated name, what was returned (ret and range) and what the twin
\* returned; for reset, ret says whether there was anything to clear.
Last(op, c, out, tout) ==
    [op |-> op, capture |-> c, name |-> out.name, ret |-> out.ret,
     range |-> out.range, resolved |-> out.resolved, passed |-> out.passed,
     twinRet |-> tout.ret, twinRange |-> tout.range]

NoOutcome == [name |-> <<>>, ret |-> "none", range |-> NoRange, resolved |-> FALSE,
              passed |-> FALSE]

Did(op) == Last(op, NoCapture, NoOutcome, NoOutcome)

----------------------------------------------------------------------------
(* The state machine.  twinLive is "off" when no twin is kept, "armed"     *)
(* when one is to be constructed at the next reset, "live" after it.       *)

InitWith(twinState) ==
    /\ map = EmptyMap
    /\ rangeData = EmptyMap
    /\ patternCache = EmptyMap
    /\ compiled = [p \in Patterns |-> 0]
    /\ calls = 0
    /\ last = Did("new")
    /\ emitted = <<>>
    /\ accepted = EmptyMap
    /\ direct = FALSE
    /\ registered = <<>>
    /\ twin = Fresh
    /\ twinLive = twinState
    /\ probe = NoProbe

Init == InitWith("off")

\* What the twin is after the same store call.
TwinAfter(c) ==
    Pick({[twin |-> [map |-> tout.map, rangeData |-> tout.rangeData,
                     patternCache |-> tout.patternCache],
           out |-> tout] :
          tout \in {store(twin.map, twin.rangeData, twin.patternCache, compiled, c)}})

\* resolver.store(c), the bound-th call since the last reset at most; after
\* a reset the same call is made on the twin.
Store(c, bound) ==
    /\ calls < bound
    /\ \E out \in {store(map, rangeData, patternCache, compiled, c)},
          tw \in {IF twinLive = "live" THEN TwinAfter(c)
                  ELSE [twin |-> twin, out |-> NoOutcome]} :
         /\ map' = out.map
         /\ rangeData' = out.rangeData
         /\ patternCache' = out.patternCache
         /\ compiled' = out.compiled
         /\ last' = Last("store", c, out, tw.out)
         /\ emitted' = IF out.ret = "range"
                       THEN Append(emitted, [id |-> idForScope(out.name),
                                             range |-> out.range])
                       ELSE emitted
         /\ registered' = IF out.ret = "range"
                          THEN registered \o
                               <<Registration(out.range.startPosition,
                                              idForScope(out.name), "open", FALSE),
                                 Registration(out.range.endPosition,
                                              idForScope(out.name), "close", FALSE)>>
                          ELSE registered
         /\ accepted' = IF out.passed
                        THEN MapSet(accepted, _keyForRange(out.range),
                               Append(IF _keyForRange(out.range) \in DOMAIN accepted
                                      THEN accepted[_keyForRange(out.range)]
                                      ELSE <<>>, c.props))
                        ELSE accepted
         /\ twin' = tw.twin
    /\ calls' = calls + 1
    /\ UNCHANGED <<direct, twinLive, probe>>

\* resolver.setBoundary(point, id, which, {root}), called from outside, the
\* bound-th call since the last reset at most.
SetBoundaryWithin(point, id, which, root, bound) ==
    /\ calls < bound
    /\ map' = setBoundary(map, point, id, which, root)
    /\ twin' = IF twinLive = "live"
               THEN [twin EXCEPT !.map = setBoundary(@, point, id, which, root)]
               ELSE twin
    /\ calls' = calls + 1
    /\ direct' = TRUE
    /\ registered' = Append(registered, Registration(point, id, which, root))
    /\ last' = Did("setBoundary")
    /\ UNCHANGED <<rangeData, patternCache, compiled, emitted, accepted, twinLive,
                   probe>>

SetBoundary(point, id, which, root) == SetBoundaryWithin(point, id, which, root, MaxCalls)

\* resolver.getOrCompilePattern(pattern), called from outside.
Compile(pattern) ==
    /\ \E got \in {getOrCompilePattern(patternCache, compiled, pattern)} :
           /\ patternCache' = got.cache
           /\ compiled' = got.count
    /\ last' = Did("compile")
    /\ UNCHANGED <<map, rangeData, calls, emitted, accepted, direct, registered,
                   twin, twinLive, probe>>

\* resolver.reset(); an armed twin is constructed anew.
Reset ==
    /\ map' = reset(map, rangeData).map
    /\ rangeData' = reset(map, rangeData).rangeData
    /\ calls' = 0
    /\ emitted' = <<>>
    /\ accepted' = EmptyMap
    /\ direct' = FALSE
    /\ registered' = <<>>
    /\ twin' = Fresh
    /\ twinLive' = IF twinLive = "off" THEN "off" ELSE "live"
    /\ last' = [Did("reset") EXCEPT
                   !.ret = IF map # EmptyMap \/ rangeData # EmptyMap
                           THEN "cleared" ELSE "none"]
    /\ UNCHANGED <<patternCache, compiled, probe>>

StoreAny == \E c \in Captures : Store(c, MaxCalls)

SetBoundaryAny ==
    \E point \in BoundaryPoints, which \in {"open", "close"}, root \in BOOLEAN :
        SetBoundary(point, RootId, which, root)

CompileAny == \E pattern \in Patterns : Compile(pattern)

Next == StoreAny \/ SetBoundaryAny \/ CompileAny \/ Reset

Spec == Init /\ [][Next]_vars

\* The same operations with a twin resolver kept from the first reset on.
InitTwin == InitWith("armed")

SpecTwin == InitTwin /\ [][Next]_vars

\* Captures without directives only, one call more.
MaxPlain == 3

StorePlain == \E c \in PlainCaptures : Store(c, MaxPlain)

NextPlain == StorePlain \/ Reset

SpecPlain == Init /\ [][NextPlain]_vars

----------------------------------------------------------------------------
(* Properties.                                                             *)

\* The store call just made left the boundary map and the metadata alone
\* and returned false.
RejectedStep ==
    /\ last'.ret = "false"
    /\ map' = map
    /\ rangeData' = rangeData

\* A store call was just made and its capture resolved to a range.
ResolvedStep == last'.op = "store" /\ last'.resolved

\* Since the last reset a capture with a final directive (of any value) was
\* accepted for the range with key k.
FinalAccepted(k) ==
    /\ k \in DOMAIN accepted
    /\ \E i \in 1..Len(accepted[k]) : HasKey(accepted[k][i], "final")

\* The same, with a truthy value.
TruthyFinalAccepted(k) ==
    /\ k \in DOMAIN accepted
    /\ \E i \in 1..Len(accepted[k]) :
          /\ HasKey(accepted[k][i], "final")
          /\ Truthy(ValueOf(accepted[k][i], "final"))

\* C1 as stated: once a capture with a final directive was accepted for a
\* range, every later store call resolving to that range returns false, adds
\* no boundary and leaves the metadata unchanged.
C1_FinalAnyValue ==
    [][(ResolvedStep /\ FinalAccepted(_keyForRange(last'.range))) => RejectedStep]_vars

\* C1 amended: once a capture with a final directive of a truthy (non-empty)
\* value was accepted for a range, every later store call resolving to that
\* range returns false, adds no boundary and leaves the metadata unchanged.
C1_FinalTruthy ==
    [][(ResolvedStep /\ TruthyFinalAccepted(_keyForRange(last'.range)))
         => RejectedStep]_vars

\* A capture without directives was rejected on a range claimed as final.
C1_Witness ==
    /\ last.op = "store"
    /\ last.resolved
    /\ last.capture.props = <<>>
    /\ last.ret = "false"
    /\ TruthyFinalAccepted(_keyForRange(last.range))

\* Since the last reset a capture without a final directive was accepted for
\* the range with key k.
NonFinalAccepted(k) ==
    /\ k \in DOMAIN accepted
    /\ \E i \in 1..Len(accepted[k]) : ~HasKey(accepted[k][i], "final")

\* C2: a capture with the shy directive that resolves to a range for which
\* a capture without final was accepted earlier is rejected (false returned,
\* no boundary added, metadata unchanged); a shy capture passes only when
\* the range has no metadata yet.
C2_ShyRejected ==
    [][(ResolvedStep /\ HasKey(last'.capture.props, "shy"))
         => /\ NonFinalAccepted(_keyForRange(last'.range)) => RejectedStep
            /\ last'.passed => _keyForRange(last'.range) \notin DOMAIN rangeData]_vars

\* A shy capture was rejected on a range whose metadata was recorded by a
\* capture named with the sentinel and carrying no directives.
C2_Witness ==
    /\ last.op = "store"
    /\ last.resolved
    /\ HasKey(last.capture.props, "shy")
    /\ last.ret = "false"
    /\ _keyForRange(last.range) \in DOMAIN accepted
    /\ accepted[_keyForRange(last.range)] = << <<>> >>
    /\ emitted = <<>>

\* The scope IDs of the captures in log whose range starts (which = "open")
\* or ends (which = "close") at the position with key k, in call order.
RECURSIVE IdsAt(_, _, _)
IdsAt(log, k, which) ==
    IF log = <<>> THEN <<>>
    ELSE LET e == Head(log)
             at == IF which = "open" THEN e.range.startPosition
                   ELSE e.range.endPosition
         IN  (IF _keyForPoint(at) = k THEN <<e.id>> ELSE <<>>)
               \o IdsAt(Tail(log), k, which)

\* C3: without root override, the open list of a position holds the scope
\* IDs of the accepted captures that start there in call order, and the
\* close list those of the accepted captures that end there in reverse call
\* order; so n captures of one range give open = [c1..cn], close = [cn..c1].
C3_CallOrder ==
    \A k \in DOMAIN map :
        /\ map[k].open = IdsAt(emitted, k, "open")
        /\ map[k].close = Reverse(IdsAt(emitted, k, "close"))

\* Three captures of one range, not all of one name, were accepted.
C3_Witness ==
    /\ Len(emitted) = 3
    /\ emitted[1].range = emitted[2].range
    /\ emitted[2].range = emitted[3].range
    /\ emitted[1].id # emitted[2].id
    /\ emitted[2].id # emitted[3].id
    /\ map[_keyForPoint(emitted[1].range.startPosition)].open =
         <<emitted[1].id, emitted[2].id, emitted[3].id>>
    /\ map[_keyForPoint(emitted[1].range.endPosition)].close =
         <<emitted[3].id, emitted[2].id, emitted[1].id>>

----------------------------------------------------------------------------
(* Nesting of the emitted boundaries.                                      *)

\* The keys of the boundary map by ascending position.
RECURSIVE SortedKeys(_)
SortedKeys(S) ==
    IF S = {} THEN <<>>
    ELSE Pick({<<k>> \o SortedKeys(S \ {k}) :
               k \in {CHOOSE x \in S : \A y \in S :
                        comparePoints(_keyToObject(x), _keyToObject(y)) <= 0}})

\* The boundary events in reading order: by ascending position and, at each
\* position, the close list in order followed by the open list in order.
RECURSIVE EventsFrom(_, _)
EventsFrom(m, keys) ==
    IF keys = <<>> THEN <<>>
    ELSE [i \in 1..Len(m[Head(keys)].close) |->
             [which |-> "close", id |-> m[Head(keys)].close[i]]]
         \o [i \in 1..Len(m[Head(keys)].open) |->
             [which |-> "open", id |-> m[Head(keys)].open[i]]]
         \o EventsFrom(m, Tail(keys))

Events(m) == Pick({EventsFrom(m, keys) : keys \in {SortedKeys(DOMAIN m)}})

\* Every close event closes the scope on top of the stack of open scopes.
RECURSIVE LifoFrom(_, _)
LifoFrom(events, stack) ==
    IF events = <<>> THEN TRUE
    ELSE IF Head(events).which = "open"
    THEN LifoFrom(Tail(events), <<Head(events).id>> \o stack)
    ELSE /\ stack # <<>>
         /\ Head(stack) = Head(events).id
         /\ LifoFrom(Tail(events), Tail(stack))

Lifo(m) == \A events \in {Events(m)} : LifoFrom(events, <<>>)

Disjoint(x, y) == x.endIndex <= y.startIndex \/ y.endIndex <= x.startIndex
Encloses(x, y) == x.startIndex <= y.startIndex /\ y.endIndex <= x.endIndex
SharesAnEnd(x, y) ==
    /\ _keyForRange(x) # _keyForRange(y)
    /\ x.startIndex = y.startIndex \/ x.endIndex = y.endIndex

\* The ranges of the accepted captures are non-empty and pairwise nested or
\* disjoint.
NestedOrDisjoint ==
    /\ \A i \in 1..Len(emitted) : isValidRange(emitted[i].range)
    /\ \A i, j \in 1..Len(emitted) :
          \/ Disjoint(emitted[i].range, emitted[j].range)
          \/ Encloses(emitted[i].range, emitted[j].range)
          \/ Encloses(emitted[j].range, emitted[i].range)

\* Of two accepted captures whose different ranges share their start or
\* their end, the one with the enclosing range was stored first.
EnclosingFirst ==
    \A i, j \in 1..Len(emitted) :
        (i < j /\ SharesAnEnd(emitted[i].range, emitted[j].range))
            => Encloses(emitted[i].range, emitted[j].range)

----------------------------------------------------------------------------
(* Range metadata.                                                         *)

\* C5 as stated: between two resets, the metadata recorded for a range is
\* the setProperties of the first capture that store accepted for it; a
\* capture accepted later for the same range does not replace it.
C5_FirstAccepted ==
    /\ DOMAIN rangeData = DOMAIN accepted
    /\ \A k \in DOMAIN rangeData : rangeData[k] = accepted[k][1]

\* C5 amended: between two resets, the metadata recorded for a range is the
\* setProperties of the capture that store accepted for it most recently; a
\* capture accepted later for the same range replaces it.
C5_LastAccepted ==
    /\ DOMAIN rangeData = DOMAIN accepted
    /\ \A k \in DOMAIN rangeData : rangeData[k] = accepted[k][Len(accepted[k])]

\* Two captures with different setProperties were accepted for one range.
C5_Witness ==
    \E k \in DOMAIN accepted :
        /\ Len(accepted[k]) = 2
        /\ accepted[k][1] # accepted[k][2]
        /\ k \in DOMAIN rangeData
        /\ rangeData[k] = accepted[k][2]

\* C6 as stated: no invalid range is stored: the range of every capture
\* that recorded metadata or contributed an open/close boundary has
\* startIndex <= endIndex and startPosition strictly before endPosition,
\* also when the capture has no adjustment directive.
C6_NoInvalidRangeStored ==
    /\ (last.op = "store" /\ last.passed) => isValidRange(last.range)
    /\ \A i \in 1..Len(emitted) : isValidRange(emitted[i].range)

----------------------------------------------------------------------------
(* The suppression sentinel.                                               *)

\* The store call just made was for a capture whose interpolated name is
\* the sentinel, whose range resolved and whose tests passed.
SentinelStep == last'.op = "store" /\ last'.name = IGNORE /\ last'.passed

\* C7: a store call whose interpolated name is '_IGNORE_', whose range
\* resolves and whose tests pass records the capture's setProperties as the
\* metadata of its range, leaves the boundary map unchanged and returns
\* false; the metadata is then seen by the tests of later captures: shy
\* fails on the range, every test fails on it if final was recorded truthy,
\* and onlyIfDescendantOfNodeWithData passes below the node for the keys
\* recorded under the node's own range.
C7_SentinelRecordsOnly ==
    [][SentinelStep =>
         /\ last'.ret = "false"
         /\ map' = map
         /\ rangeData' = MapSet(rangeData, _keyForRange(last'.range),
                                last'.capture.props)
         /\ getDataForRange(rangeData', last'.range) =
                [found |-> TRUE, props |-> last'.capture.props]
         /\ test(getDataForRange(rangeData', last'.range), << <<"shy", "true">> >>,
                 last'.capture.node, rangeData') = "fail"
         /\ (/\ HasKey(last'.capture.props, "final")
             /\ Truthy(ValueOf(last'.capture.props, "final")))
               => test(getDataForRange(rangeData', last'.range), <<>>,
                       last'.capture.node, rangeData') = "fail"
         /\ last'.range = NodeRange(last'.capture.node)
               => \A d \in Descendants(last'.capture.node) :
                    \A key \in Keys(last'.capture.props) :
                       onlyIfDescendantOfNodeWithData(d, key, rangeData')]_vars

\* A capture named with the sentinel recorded final for the range of a node
\* with children and emitted nothing.
C7_Witness ==
    /\ last.op = "store"
    /\ last.name = IGNORE
    /\ last.passed
    /\ last.ret = "false"
    /\ HasKey(last.capture.props, "final")
    /\ Descendants(last.capture.node) # {}
    /\ map = EmptyMap
    /\ getDataForRange(rangeData, last.range).found

----------------------------------------------------------------------------
(* reset.                                                                  *)

\* Every range over the buffer, by its indices.
IndexRanges ==
    {[startPosition |-> indexToPosition(a), startIndex |-> a,
      endPosition |-> indexToPosition(b), endIndex |-> b] :
     a \in 0..BufferLen, b \in 0..BufferLen}

\* C8: after reset, whatever store, setBoundary and compile operations came
\* before, the boundary map is empty (iteration yields nothing) and the
\* metadata lookup finds nothing for any range, while the pattern cache is
\* unchanged: every pattern compiled before is returned from the cache
\* without another compilation.
C8_ResetClears ==
    [][last'.op = "reset" =>
         /\ map' = EmptyMap
         /\ Iterate(map') = {}
         /\ \A r \in IndexRanges : ~getDataForRange(rangeData', r).found
         /\ patternCache' = patternCache
         /\ compiled' = compiled
         /\ \A pattern \in DOMAIN patternCache :
              \A got \in {getOrCompilePattern(patternCache', compiled', pattern)} :
                 /\ got.regex = patternCache[pattern]
                 /\ got.count = compiled
                 /\ got.cache = patternCache]_vars

\* reset has just cleared boundaries and metadata of a resolver that holds
\* a compiled pattern.
C8_Witness ==
    /\ last.op = "reset"
    /\ last.ret = "cleared"
    /\ patternCache # EmptyMap
    /\ map = EmptyMap
    /\ rangeData = EmptyMap

\* C9: after a reset, whatever came before it, each store call returns what
\* it returns on a resolver constructed at the time of the reset (with an
\* empty pattern cache) and given the same calls, and the boundary maps and
\* range metadata of the two are equal.
C9_ResetIsFresh ==
    twinLive = "live" =>
        /\ map = twin.map
        /\ rangeData = twin.rangeData
        /\ last.op = "store" =>
              /\ last.ret = last.twinRet
              /\ last.range = last.twinRange

\* After a reset, a capture with a match-based adjustment was accepted by a
\* resolver whose pattern cache holds more than that of the new resolver.
C9_Witness ==
    /\ twinLive = "live"
    /\ last.op = "store"
    /\ last.ret = "range"
    /\ last.twinRet = "range"
    /\ HasKey(last.capture.props, "startAfterFirstMatchOf")
    /\ twin.patternCache # EmptyMap
    /\ DOMAIN patternCache # DOMAIN twin.patternCache

----------------------------------------------------------------------------
(* Soft drop.                                                              *)

MatchKeys ==
    {"startAndEndAroundFirstMatchOf", "startBeforeFirstMatchOf",
     "startAfterFirstMatchOf", "endBeforeFirstMatchOf", "endAfterFirstMatchOf"}

\* The range capture c resolves to is invalid.
InvalidResolvedRange(c) ==
    IF adjustsCaptureRange(c.props)
    THEN \E res \in {AdjustFrom(1, c.node, c.props, NodeRange(c.node),
                                patternCache, compiled)} :
            res.tag = "range" /\ ~isValidRange(res.range)
    ELSE ~isValidRange(NodeRange(c.node))

\* Capture c resolves to a range and one of its inclusion tests fails.
TestFails(c) ==
    \E res \in {determineCaptureRange(c.node, c.props, patternCache, compiled)} :
        /\ res.tag = "range"
        /\ test(getDataForRange(rangeData, res.range), c.props, c.node, rangeData)
              = "fail"

\* The pattern of a match-based adjustment of c does not match the node text.
NoMatch(c) ==
    \E i \in 1..Len(c.props) :
        /\ c.props[i][1] \in MatchKeys
        /\ ~Match(NodeText(c.node), RegExpLiteral(c.props[i][2])).found

\* An offsetStart or offsetEnd value of c is not a number.
NonNumericOffset(c) ==
    \E i \in 1..Len(c.props) :
        /\ c.props[i][1] \in {"offsetStart", "offsetEnd"}
        /\ IsNaN(c.props[i][2])

\* C10 as stated: when the resolved range of a capture is invalid, or an
\* inclusion test fails, or the pattern of a match-based adjustment does not
\* match the node text, or an offsetStart/offsetEnd value is not numeric,
\* store returns false, raises nothing, and leaves the boundary map and the
\* range metadata as they were.
C10_SoftDrop ==
    [][(/\ last'.op = "store"
        /\ \/ InvalidResolvedRange(last'.capture)
           \/ TestFails(last'.capture)
           \/ NoMatch(last'.capture)
           \/ NonNumericOffset(last'.capture))
         => RejectedStep]_vars

----------------------------------------------------------------------------
(* The adjustment pipeline: captures with one or two adjustment            *)
(* directives, on every node.                                              *)

AdjustPropSets ==
    { << <<"startAt", "parent.startPosition">> >>,
      << <<"startAt", "firstChild.endPosition">> >>,
      << <<"endAt", "parent.endPosition">> >>,
      << <<"endAt", "firstChild.endPosition">> >>,
      << <<"offsetStart", "-1">> >>,
      << <<"offsetStart", "1">> >>,
      << <<"offsetEnd", "1">> >>,
      << <<"offsetEnd", "-1">> >>,
      << <<"offsetStart", "x">> >>,
      << <<"offsetStart", "x">>, <<"startAt", "parent.startPosition">> >>,
      << <<"startAt", "parent.startPosition">>, <<"offsetStart", "x">> >>,
      << <<"startAfterFirstMatchOf", "_">>, <<"offsetStart", "-1">> >>,
      << <<"offsetStart", "x">>, <<"startAfterFirstMatchOf", "_">> >>,
      << <<"startAt", "parent.startPosition">>, <<"startAfterFirstMatchOf", "_">> >>,
      << <<"endBeforeFirstMatchOf", "z">>, <<"endAt", "parent.endPosition">> >> }

AdjustCaptures == {Capture(n, NameA, props) : n \in Nodes, props \in AdjustPropSets}

MaxAdjust == 2

StoreAdjust == \E c \in AdjustCaptures : Store(c, MaxAdjust)

NextAdjust == StoreAdjust \/ Reset

SpecAdjust == Init /\ [][NextAdjust]_vars

PositionKeys == {"startAt", "endAt", "offsetStart", "offsetEnd"}

\* The range the pipeline of capture c has produced when it comes to its
\* i-th property: a range, or null or thrown when it stopped before.
RangeBefore(c, i) ==
    AdjustFrom(1, c.node, SubSeq(c.props, 1, i - 1), NodeRange(c.node),
               patternCache, compiled)

\* The position the i-th property of c, a position-based adjustment,
\* resolves to from the range so far; ok is FALSE when there is none (the
\* descriptor names no position, the offset is not a number).
ResolvedPosition(c, i, range) ==
    CASE c.props[i][1] \in {"startAt", "endAt"} ->
             resolveNodePosition(c.node, c.props[i][2])
      [] c.props[i][1] = "offsetStart" ->
             IF IsNaN(c.props[i][2]) THEN [ok |-> FALSE, point |-> Point(0, 0)]
             ELSE [ok |-> TRUE,
                   point |-> adjustPositionByOffset(range.startPosition,
                                                    Number(c.props[i][2]))]
      [] c.props[i][1] = "offsetEnd" ->
             IF IsNaN(c.props[i][2]) THEN [ok |-> FALSE, point |-> Point(0, 0)]
             ELSE [ok |-> TRUE,
                   point |-> adjustPositionByOffset(range.endPosition,
                                                    Number(c.props[i][2]))]

\* The pipeline of c reaches its i-th property, a position-based adjustment
\* that resolves to a position outside the closed interval between the
\* node's own start and end.
ResolvesOutside(c, i) ==
    /\ c.props[i][1] \in PositionKeys
    /\ \E before \in {RangeBefore(c, i)} :
          /\ before.tag = "range"
          /\ \E pos \in {ResolvedPosition(c, i, before.range)} :
                /\ pos.ok
                /\ ~(/\ comparePoints(pos.point, NodeStartPosition(c.node)) >= 0
                     /\ comparePoints(pos.point, NodeEndPosition(c.node)) <= 0)

\* Every position-based adjustment the pipeline of c reaches resolves to a
\* position on or inside the node's extent, or to no position for an offset
\* that is not a number.
ResolvesInside(c) ==
    \A i \in 1..Len(c.props) :
        \A before \in {RangeBefore(c, i)} :
            (c.props[i][1] \in PositionKeys /\ before.tag = "range")
               => \E pos \in {ResolvedPosition(c, i, before.range)} :
                     \/ /\ pos.ok
                        /\ comparePoints(pos.point, NodeStartPosition(c.node)) >= 0
                        /\ comparePoints(pos.point, NodeEndPosition(c.node)) <= 0
                     \/ /\ ~pos.ok
                        /\ c.props[i][1] \in {"offsetStart", "offsetEnd"}

\* C11: when a startAt, endAt, offsetStart or offsetEnd of the capture
\* resolves to a position outside the closed interval between the node's
\* own start and end positions (not those of the range so far), store raises
\* an error instead of returning false; when every such adjustment resolves
\* to a position on or inside that interval, store does not raise.
C11_HardFailure ==
    [][last'.op = "store" =>
         /\ (\E i \in 1..Len(last'.capture.props) :
                ResolvesOutside(last'.capture, i)) => last'.ret = "throw"
         /\ (/\ ResolvesInside(last'.capture)
             /\ Keys(last'.capture.props) \subseteq AdjustmentKeys)
               => last'.ret # "throw"]_vars

\* After a capture with a startAt inside its node's extent was accepted, an
\* offsetStart that leaves the extent of its node has raised an error.
C11_Witness ==
    /\ last.op = "store"
    /\ last.ret = "throw"
    /\ last.capture.props = << <<"offsetStart", "-1">> >>
    /\ \E k \in DOMAIN accepted : HasKey(accepted[k][1], "startAt")

----------------------------------------------------------------------------
(* The root override: setBoundary called directly, with and without root,  *)
(* between store calls for captures without directives.                    *)

MaxRoot == 3

SetBoundaryRoot ==
    \E point \in BoundaryPoints, which \in {"open", "close"},
       reg \in {<<RootId, TRUE>>, <<NameA, FALSE>>, <<NameB, FALSE>>} :
        SetBoundaryWithin(point, reg[1], which, reg[2], MaxRoot)

NextRoot == StorePlain \/ SetBoundaryRoot \/ Reset

SpecRoot == Init /\ [][NextRoot]_vars

\* The scope IDs of the calls in log for the list which of the position
\* with key k, made with the given root flag, in call order.
RECURSIVE RegisteredIds(_, _, _, _)
RegisteredIds(log, k, which, root) ==
    IF log = <<>> THEN <<>>
    ELSE (IF /\ Head(log).key = k
             /\ Head(log).which = which
             /\ Head(log).root = root
          THEN <<Head(log).id>> ELSE <<>>)
         \o RegisteredIds(Tail(log), k, which, root)

\* C12: when exactly one of the registrations for a list of a position was
\* made with root = true, the root scope ID is the first element of the open
\* list, or the last element of the close list, wherever the root
\* registration came among the others; the other IDs are in the order they
\* have without it (open: call order, close: reverse call order).
C12_RootOutermost ==
    \A k \in DOMAIN map :
        /\ \A roots \in {RegisteredIds(registered, k, "open", TRUE)} :
              Len(roots) = 1 =>
                  map[k].open = roots \o RegisteredIds(registered, k, "open", FALSE)
        /\ \A roots \in {RegisteredIds(registered, k, "close", TRUE)} :
              Len(roots) = 1 =>
                  map[k].close =
                      Reverse(RegisteredIds(registered, k, "close", FALSE)) \o roots

\* The root registration for a close list came between the registrations
\* of two other scope IDs, one of them made by store.
C12_Witness ==
    \E k \in DOMAIN map :
        /\ RegisteredIds(registered, k, "close", TRUE) = <<RootId>>
        /\ map[k].close = <<NameB, NameA, RootId>>
        /\ emitted # <<>>
        /\ \E i \in 1..Len(registered) :
              /\ registered[i].root
              /\ \E j \in 1..(i - 1) : registered[j].key = k
                                        /\ registered[j].which = "close"
              /\ \E j \in (i + 1)..Len(registered) : registered[j].key = k
                                        /\ registered[j].which = "close"

----------------------------------------------------------------------------
(* The point functions, applied to three points at a time.                 *)

MaxRow == 1
MaxColumn == 2

Points == {Point(r, c) : r \in 0..MaxRow, c \in 0..MaxColumn}

\* comparePoints on each pair of p, a and b, and isBetweenPoints(p, a, b)
\* with its last two arguments in both orders.
ComparePoints(p, a, b) ==
    /\ probe' = [made |-> TRUE, p |-> p, a |-> a, b |-> b,
                 pa |-> comparePoints(p, a), ap |-> comparePoints(a, p),
                 pb |-> comparePoints(p, b), bp |-> comparePoints(b, p),
                 ab |-> comparePoints(a, b), ba |-> comparePoints(b, a),
                 pp |-> comparePoints(p, p),
                 between |-> isBetweenPoints(p, a, b),
                 swapped |-> isBetweenPoints(p, b, a)]
    /\ UNCHANGED <<map, rangeData, patternCache, compiled, calls, last, emitted,
                   accepted, direct, registered, twin, twinLive>>

NextPoints == \E p \in Points, a \in Points, b \in Points : ComparePoints(p, a, b)

SpecPoints == Init /\ [][NextPoints]_vars

\* a comes before b by row, and within a row by column.
RowMajorBefore(a, b) == a.row < b.row \/ (a.row = b.row /\ a.column < b.column)

\* The result r of comparing x with y is that of the row-major order.
RowMajor(r, x, y) ==
    /\ r \in Int
    /\ r < 0 <=> RowMajorBefore(x, y)
    /\ r = 0 <=> x = y
    /\ r > 0 <=> RowMajorBefore(y, x)

\* C17: comparePoints is the row-major total order on positions (zero iff
\* equal, antisymmetric, transitive, total), and isBetweenPoints(p, a, b)
\* holds iff min(a, b) <= p <= max(a, b) in that order, so that it is the
\* same as isBetweenPoints(p, b, a).
C17_TotalOrder ==
    probe.made =>
        /\ RowMajor(probe.pa, probe.p, probe.a)
        /\ RowMajor(probe.ap, probe.a, probe.p)
        /\ RowMajor(probe.pb, probe.p, probe.b)
        /\ RowMajor(probe.bp, probe.b, probe.p)
        /\ RowMajor(probe.ab, probe.a, probe.b)
        /\ RowMajor(probe.ba, probe.b, probe.a)
        /\ probe.pp = 0
        /\ (probe.ab < 0) = (probe.ba > 0)
        /\ (probe.ab = 0) = (probe.ba = 0)
        /\ (probe.ap <= 0 /\ probe.pb <= 0) => probe.ab <= 0
        /\ probe.between =
              \/ probe.ap <= 0 /\ probe.pb <= 0
              \/ probe.bp <= 0 /\ probe.pa <= 0
        /\ probe.between = probe.swapped

\* A point strictly between two points of different rows, given in
\* descending order.
C17_Witness ==
    /\ probe.made
    /\ probe.a.row > probe.b.row
    /\ probe.p.row = probe.a.row
    /\ probe.p.column < probe.a.column
    /\ probe.p.column > probe.b.column
    /\ probe.between
    /\ probe.swapped

----------------------------------------------------------------------------
(* The inclusion tests: captures with test directives, with keys that are  *)
(* neither tests nor adjustments, and with metadata for the tests of       *)
(* later captures.                                                         *)

TestPropSets ==
    { <<>>,
      << <<"onlyIfFirst", "true">> >>,
      << <<"onlyIfFirst", "true">>, <<"onlyIfLast", "true">> >>,
      << <<"onlyIfNotFirst", "true">>, <<"onlyIfLast", "true">> >>,
      << <<"onlyIfLast", "true">>, <<"foo", "bar">> >>,
      << <<"foo", "bar">> >>,
      << <<"toString", "x">> >>,
      << <<"final", "true">> >>,
      << <<"foo", "bar">>, <<"onlyIfNotFirst", "true">> >>,
      << <<"foo", "bar">>, <<"offsetEnd", "-1">> >>,
      << <<"onlyIfDescendantOfNodeWithData", "foo">> >>,
      << <<"onlyIfNotDescendantOfNodeWithData", "foo">> >>,
      << <<"onlyIfDescendantOfNodeWithData", "toString">> >> }

TestCaptures ==
    {Capture(n, NameA, props) : n \in {1, 2, 3, 4, 7}, props \in TestPropSets}

MaxTests == 2

StoreTests == \E c \in TestCaptures : Store(c, MaxTests)

NextTests == StoreTests \/ Reset

SpecTests == Init /\ [][NextTests]_vars

\* The directives of props that are tests or adjustments.
IsRecognized(kv) == kv[1] \in TestKeys \cup AdjustmentKeys
Recognized(props) == SelectSeq(props, IsRecognized)

\* Every test key in the properties of capture c passes, for the metadata
\* existing recorded for its range.
EveryTestPasses(c, existing) ==
    \A i \in 1..Len(c.props) :
        c.props[i][1] \in TestKeys
           => TESTS(c.props[i][1], c.node, c.props[i][2], existing, rangeData) = "pass"

\* C13 as stated: for a range without final metadata a capture passes the
\* inclusion stage iff every test key in its setProperties passes (so
\* always, when it has none); and keys that are neither tests nor
\* adjustments do not affect the outcome of store: what it returns and the
\* boundaries it adds are those for the capture without these keys.
C13_TestsConjoin ==
    [][last'.op = "store" =>
         /\ \A existing \in {getDataForRange(rangeData, last'.range)} :
               (last'.resolved /\ ~DataFinal(existing))
                  => (last'.passed <=> EveryTestPasses(last'.capture, existing))
         /\ \A out \in {store(map, rangeData, patternCache, compiled,
                              [last'.capture EXCEPT !.props = Recognized(@)])} :
               /\ out.ret = last'.ret
               /\ out.range = last'.range
               /\ out.map = map']_vars

----------------------------------------------------------------------------
(* Name interpolation: captures without directives whose names hold the    *)
(* tokens, on nodes with and without a space in their text.                *)

NameWithText == <<"x">> \o TEXT_TOKEN
NameWithType == <<"x">> \o TYPE_TOKEN
NameWithBoth == <<"x">> \o TEXT_TOKEN \o TYPE_TOKEN

NameCaptures ==
    {Capture(n, name, <<>>) :
        n \in {2, 4, 6, 7},
        name \in {NameA, NameWithText, NameWithType, NameWithBoth, NameText, IGNORE}}

MaxNames == 2

StoreNames == \E c \in NameCaptures : Store(c, MaxNames)

NextNames == StoreNames \/ Reset

SpecNames == Init /\ [][NextNames]_vars

\* s with its first occurrence of sub replaced by the characters of by.
ReplaceLiteral(s, sub, by) ==
    Pick({IF i < 0 THEN s1
          ELSE SubSeq(s1, 1, i) \o by \o SubSeq(s1, i + Len(sub) + 1, Len(s1)) :
          <<s1, i>> \in {<<s, IndexOf(s, sub)>>}})

\* The name with '_TEXT_' replaced by the literal text of node n if that
\* holds no space, and '_TYPE_' replaced by the type of n.
LiteralName(name, n) ==
    Pick({ReplaceLiteral(name1, TYPE_TOKEN, NodeType(n)) :
          name1 \in {IF Includes(NodeText(n), <<" ">>) THEN name
                     ELSE ReplaceLiteral(name, TEXT_TOKEN, NodeText(n))}})

\* C14 as stated: store uses the capture name with '_TEXT_' replaced by the
\* node's literal text iff the text holds no space (else the token stays),
\* '_TYPE_' replaced by the node's type unconditionally, and a name with
\* neither token unchanged; it is this name that store compares with the
\* sentinel and hands to the scope-ID lookup.
C14_Interpolation ==
    [][last'.op = "store" =>
         \A name \in {LiteralName(last'.capture.name, last'.capture.node)} :
            /\ last'.name = name
            /\ last'.ret = "range" => emitted' = Append(emitted,
                                         [id |-> idForScope(name), range |-> last'.range])
            /\ (last'.passed /\ name = IGNORE) => (last'.ret = "false" /\ map' = map)
            /\ (last'.passed /\ name # IGNORE) => last'.ret = "range"]_vars

----------------------------------------------------------------------------
(* Captures without adjustments.                                           *)

\* C15 as stated: a capture whose setProperties hold no adjustment key
\* resolves to exactly the extent of its node (the same positions and
\* indices), and when no test fails store opens the scope at the node's
\* start position and closes it at the node's end position.
C15_NodeExtent ==
    [][(/\ last'.op = "store"
        /\ Keys(last'.capture.props) \cap AdjustmentKeys = {})
         => /\ last'.resolved
            /\ last'.range = NodeRange(last'.capture.node)
            /\ (last'.passed /\ last'.name # IGNORE)
                  => /\ last'.ret = "range"
                     /\ registered' = registered \o
                           <<Registration(NodeStartPosition(last'.capture.node),
                                          idForScope(last'.name), "open", FALSE),
                             Registration(NodeEndPosition(last'.capture.node),
                                          idForScope(last'.name), "close", FALSE)>>
                     /\ map' = setBoundaries(map, NodeRange(last'.capture.node),
                                             idForScope(last'.name))]_vars

----------------------------------------------------------------------------
(* The pattern cache.                                                      *)

\* C16: whatever the operations on a resolver (store with match-based
\* adjustments, getOrCompilePattern, setBoundary, reset), each pattern
\* source is compiled at most once, namely when it enters the cache; no
\* operation removes or replaces an entry, and a request for a cached source
\* returns the cached pattern and compiles nothing.
C16_CompiledOnce ==
    [][/\ \A pattern \in Patterns :
             /\ compiled'[pattern] <= 1
             /\ compiled'[pattern] = 1 <=> pattern \in DOMAIN patternCache'
       /\ \A pattern \in DOMAIN patternCache :
             /\ pattern \in DOMAIN patternCache'
             /\ patternCache'[pattern] = patternCache[pattern]
             /\ getOrCompilePattern(patternCache', compiled', pattern) =
                   [regex |-> patternCache[pattern], cache |-> patternCache',
                    count |-> compiled']]_vars

\* Two captures with the same pattern were accepted for one range, and the
\* pattern was compiled once.
C16_Witness ==
    \E k \in DOMAIN accepted :
        /\ Len(accepted[k]) = 2
        /\ HasKey(accepted[k][1], "startAfterFirstMatchOf")
        /\ accepted[k][1] = accepted[k][2]
        /\ compiled[ValueOf(accepted[k][1], "startAfterFirstMatchOf")] = 1

----------------------------------------------------------------------------
(* The order of the adjustments.                                           *)

\* The i-th property of capture c applied as an adjustment.
Step(c, i, range, cache, count) ==
    ADJUSTMENTS(c.props[i][1], c.node, c.props[i][2], range, cache, count)

\* The store call just made ended with adjustment result res, which is null
\* or a thrown error: nothing after it was evaluated (no pattern compiled),
\* and store returned false, or raised, without recording anything.
StoppedAt(res) ==
    /\ last'.ret = IF res.tag = "throw" THEN "throw" ELSE "false"
    /\ ~last'.resolved
    /\ compiled' = res.count
    /\ patternCache' = res.cache
    /\ map' = map
    /\ rangeData' = rangeData

\* The pipeline of the store call just made ended with the range of res.
EndedWith(res) ==
    /\ compiled' = res.count
    /\ patternCache' = res.cache
    /\ IF isValidRange(res.range)
       THEN last'.resolved /\ last'.range = res.range
       ELSE last'.ret = "false" /\ ~last'.resolved

\* C18: for a capture with one or two adjustments, the adjustments run in
\* the order of setProperties, the second on the range the first produced,
\* and the pipeline stops at the first that returns null or raises: a later
\* adjustment is not evaluated.  So a non-numeric offsetStart before an
\* out-of-extent startAt drops the capture, and the two in the opposite
\* order raise an error.
C18_InOrder ==
    [][(/\ last'.op = "store"
        /\ Len(last'.capture.props) \in 1..2
        /\ Keys(last'.capture.props) \subseteq AdjustmentKeys)
         => \A c \in {last'.capture} :
              \A first \in {Step(c, 1, NodeRange(c.node), patternCache, compiled)} :
                 IF first.tag # "range" THEN StoppedAt(first)
                 ELSE IF Len(c.props) = 1 THEN EndedWith(first)
                 ELSE \A second \in {Step(c, 2, first.range, first.cache, first.count)} :
                         IF second.tag # "range" THEN StoppedAt(second)
                         ELSE EndedWith(second)]_vars

\* A capture with a non-numeric offsetStart before a startAt outside the
\* extent of its node was dropped.
C18_Witness ==
    /\ last.op = "store"
    /\ last.capture.props =
          << <<"offsetStart", "x">>, <<"startAt", "parent.startPosition">> >>
    /\ ~Extent(last.capture.node,
               resolveNodePosition(last.capture.node, "parent.startPosition").point)
    /\ resolveNodePosition(last.capture.node, "parent.startPosition").ok
    /\ last.ret = "false"

----------------------------------------------------------------------------
(* Metadata of ancestors.                                                  *)

\* Some proper ancestor of node n has metadata recorded under its own index
\* pair that holds key.
AncestorHolds(n, key) ==
    \E i \in 1..Len(Ancestors(n)) :
        /\ _keyForRange(NodeRange(Ancestors(n)[i])) \in DOMAIN rangeData
        /\ HasKey(rangeData[_keyForRange(NodeRange(Ancestors(n)[i]))], key)

\* C19 as stated: a capture whose one directive is
\* onlyIfDescendantOfNodeWithData K, on a range without final metadata,
\* passes iff at the time of the call some proper ancestor of its node has
\* metadata recorded under the ancestor's own index pair that holds K; with
\* onlyIfNotDescendantOfNodeWithData K it passes iff none has.
C19_AncestorData ==
    [][(/\ last'.op = "store"
        /\ Len(last'.capture.props) = 1
        /\ ~DataFinal(getDataForRange(rangeData, NodeRange(last'.capture.node))))
         => /\ last'.capture.props[1][1] = "onlyIfDescendantOfNodeWithData"
                 => (last'.passed <=>
                       AncestorHolds(last'.capture.node, last'.capture.props[1][2]))
            /\ last'.capture.props[1][1] = "onlyIfNotDescendantOfNodeWithData"
                 => (last'.passed <=>
                       ~AncestorHolds(last'.capture.node, last'.capture.props[1][2]))]_vars

----------------------------------------------------------------------------
(* Balance of the boundary map.                                            *)

\* The bundle of m at key k, the empty bundle where m has none.
BundleAt(m, k) == IF k \in DOMAIN m THEN m[k] ELSE EmptyBundle

\* list without its i-th entry.
Without(list, i) == SubSeq(list, 1, i - 1) \o SubSeq(list, i + 1, Len(list))

\* new is old with exactly one entry more, and that entry is id.
AddsOne(new, old, id) ==
    \E i \in 1..Len(new) : new[i] = id /\ Without(new, i) = old

\* The number of entries id in the open (or close) lists of m, over all
\* positions.
Entries(m, which, id) ==
    Cardinality({ki \in UNION {{<<k, i>> : i \in 1..Len(m[k][which])} : k \in DOMAIN m} :
                   m[ki[1]][which][ki[2]] = id})

\* The scope IDs in m and in the log of emitted captures.
ScopeIds(m, log) ==
    UNION {{m[k].open[i] : i \in 1..Len(m[k].open)} \cup
           {m[k].close[i] : i \in 1..Len(m[k].close)} : k \in DOMAIN m}
      \cup {log[i].id : i \in 1..Len(log)}

\* A store call that returned a range added one entry id to the open list at
\* the range's start and one to the close list at its end, and nothing else;
\* any other store call left the map as it was.
BalancedStep ==
    last'.op = "store" =>
        IF last'.ret = "range"
        THEN /\ DOMAIN map' = DOMAIN map \cup {_keyForPoint(last'.range.startPosition),
                                              _keyForPoint(last'.range.endPosition)}
             /\ \A k \in DOMAIN map' :
                  /\ IF k = _keyForPoint(last'.range.startPosition)
                     THEN AddsOne(map'[k].open, BundleAt(map, k).open,
                                  idForScope(last'.name))
                     ELSE map'[k].open = BundleAt(map, k).open
                  /\ IF k = _keyForPoint(last'.range.endPosition)
                     THEN AddsOne(map'[k].close, BundleAt(map, k).close,
                                  idForScope(last'.name))
                     ELSE map'[k].close = BundleAt(map, k).close
        ELSE map' = map

\* With no setBoundary call from outside since the last reset, every scope
\* ID has as many open entries as close entries and as emitted captures.
BalancedMap ==
    ~direct =>
        \A id \in ScopeIds(map, emitted) :
            /\ Entries(map, "open", id) = Entries(map, "close", id)
            /\ Entries(map, "open", id) =
                 Cardinality({i \in 1..Len(emitted) : emitted[i].id = id})

\* C20: store is balanced: a call that returns a range adds exactly one
\* entry to the open list at the range's start and one entry with the same
\* scope ID to the close list at its end, and changes no other bundle; a call
\* that returns false adds nothing.  So after any store calls since the last
\* reset every scope ID has as many open entries as close entries, both as
\* many as the accepted non-sentinel captures with that ID, and no bundle of
\* the map has both lists empty.
C20_Balanced ==
    /\ [][BalancedStep]_vars
    /\ [](BalancedMap /\ \A k \in DOMAIN map : map[k] # EmptyBundle)

\* Two captures with different scope IDs were emitted, the second by the
\* last call, and a third position holds only one of the two kinds of entry.
C20_Witness ==
    /\ last.op = "store"
    /\ last.ret = "range"
    /\ ~direct
    /\ Len(emitted) = 2
    /\ emitted[1].id # emitted[2].id
    /\ \E k \in DOMAIN map : map[k].open = <<>>

----------------------------------------------------------------------------
(* Adjustments in combination: captures with one adjustment directive or   *)
(* two with different keys, in either order, on every node.                *)

NarrowDirectives ==
    { <<"startAt", "firstChild.endPosition">>,
      <<"startAt", "parent.startPosition">>,
      <<"endAt", "lastChild.startPosition">>,
      <<"endAt", "firstChild.endPosition">>,
      <<"offsetStart", "1">>,
      <<"offsetStart", "-1">>,
      <<"offsetEnd", "1">>,
      <<"offsetEnd", "-1">>,
      <<"startAndEndAroundFirstMatchOf", "_">>,
      <<"startBeforeFirstMatchOf", "_">>,
      <<"startAfterFirstMatchOf", "_">>,
      <<"endBeforeFirstMatchOf", "_">>,
      <<"endAfterFirstMatchOf", "_">>,
      <<"endBeforeFirstMatchOf", "z">> }

NarrowPropSets ==
    {<<d>> : d \in NarrowDirectives} \cup
    {<<d, e>> : <<d, e>> \in {de \in NarrowDirectives \X NarrowDirectives :
                                 de[1][1] # de[2][1]}}

NarrowCaptures == {Capture(n, NameA, props) : n \in Nodes, props \in NarrowPropSets}

MaxNarrow == 1

StoreNarrow == \E c \in NarrowCaptures : Store(c, MaxNarrow)

NextNarrow == StoreNarrow \/ Reset

SpecNarrow == Init /\ [][NextNarrow]_vars

\* C21: adjustments only narrow: for every capture with at least one
\* adjustment directive that store accepts, the resolved start and end both
\* lie within the closed interval of the node's original extent and the
\* start strictly precedes the end, for any combination and order of
\* position-based, offset-based and match-based adjustments.
C21_OnlyNarrow ==
    (/\ last.op = "store"
     /\ last.passed
     /\ adjustsCaptureRange(last.capture.props))
      => /\ isBetweenPoints(last.range.startPosition,
                            NodeRange(last.capture.node).startPosition,
                            NodeRange(last.capture.node).endPosition)
         /\ isBetweenPoints(last.range.endPosition,
                            NodeRange(last.capture.node).startPosition,
                            NodeRange(last.capture.node).endPosition)
         /\ comparePoints(last.range.startPosition, last.range.endPosition) < 0

\* An accepted capture whose two adjustments, one match-based and one
\* offset-based, moved both ends of the range inwards.
C21_Witness ==
    /\ last.op = "store"
    /\ last.ret = "range"
    /\ Len(last.capture.props) = 2
    /\ Keys(last.capture.props) \cap MatchKeys # {}
    /\ Keys(last.capture.props) \cap {"offsetStart", "offsetEnd"} # {}
    /\ last.range.startIndex > NodeRange(last.capture.node).startIndex
    /\ last.range.endIndex < NodeRange(last.capture.node).endIndex

----------------------------------------------------------------------------
(* Hard failures between other captures: captures that throw, some after   *)
(* compiling a pattern, among captures that are accepted or rejected by    *)
(* what is recorded.                                                       *)

ThrowPropSets ==
    { <<>>,
      << <<"final", "true">> >>,
      << <<"onlyIfDescendantOfNodeWithData", "final">> >>,
      << <<"endBeforeFirstMatchOf", "_">> >>,
      << <<"startAt", "parent.startPosition">> >>,
      << <<"offsetStart", "-1">> >>,
      << <<"offsetEnd", "1">> >>,
      << <<"startBeforeFirstMatchOf", "_">>, <<"offsetEnd", "1">> >> }

ThrowCaptures == {Capture(n, NameA, props) : n \in {1, 2, 4, 6}, props \in ThrowPropSets}

MaxThrow == 2

StoreThrow == \E c \in ThrowCaptures : Store(c, MaxThrow)

NextThrow == StoreThrow \/ Reset

SpecThrow == Init /\ [][NextThrow]_vars

\* What a store call shows: what it returns and the two maps it leaves.
Shown(out) ==
    [ret |-> out.ret, range |-> out.range, map |-> out.map,
     rangeData |-> out.rangeData]

\* C22: a store call that raises a hard-failure error leaves the boundary
\* map and the range metadata exactly as they were before the call, and
\* every later capture gets the result it would have got had the failing
\* capture never been submitted.
C22_ThrowLeavesState ==
    [][(last'.op = "store" /\ last'.ret = "throw")
         => /\ map' = map
            /\ rangeData' = rangeData
            /\ \A c \in ThrowCaptures :
                 Shown(store(map', rangeData', patternCache', compiled', c))
                   = Shown(store(map, rangeData, patternCache, compiled, c))]_vars

\* The second call threw after a match-based adjustment had compiled its
\* pattern, on a resolver that holds the first call's scope and metadata.
C22_Witness ==
    /\ last.op = "store"
    /\ last.ret = "throw"
    /\ calls = 2
    /\ Len(emitted) = 1
    /\ rangeData # EmptyMap
    /\ Keys(last.capture.props) \cap MatchKeys # {}
    /\ compiled["_"] = 1

=============================================================================
